---- MODULE Spec2Model ----
(***************************************************************************)
(* Model of src/index.js: the ghost-theme-dev build-and-notify pipeline.   *)
(*                                                                         *)
(* Paths are sequences of tokens ("assets", "/", "js", "/", "index", ".",  *)
(* "js"); the string tests of the source (endsWith, includes, the regular  *)
(* expression of the change handler) are computed on the tokens.  Tokens   *)
(* are chosen so that every substring the source looks for ("index",       *)
(* ".hbs", "map", ...) lies on token borders.                              *)
(***************************************************************************)
EXTENDS Integers, Sequences, FiniteSets, TLC

None == <<>>

----------------------------------------------------------------------------
(* Bounds of the model *)

\* number of watcher events handled after the handler is registered
MaxEvents == 2
\* number of ticks the clock advances after initWs
MaxTicks == 6

(* Program constants *)

\* setTimeout(..., 5000) in initWs, in milliseconds
GracePeriod == 5000

\* granularity of the model's clock, in milliseconds
TickMs == GracePeriod \div 5

----------------------------------------------------------------------------
(* Paths *)

JsIndex    == <<"assets", "/", "js", "/", "index", ".", "js">>
JsUtil     == <<"assets", "/", "js", "/", "util", ".", "js">>
JsLibIndex == <<"assets", "/", "js", "/", "lib", "/", "index", ".", "js">>
TsIndex    == <<"assets", "/", "js", "/", "index", ".", "ts">>
CssIndex   == <<"assets", "/", "css", "/", "index", ".", "css">>
CssGhost   == <<"assets", "/", "css", "/", "ghost", ".", "css">>
IndexHbs   == <<"index", ".", "hbs">>
PostHbs    == <<"post", ".", "hbs">>
DefaultHbs == <<"default", ".", "hbs">>
VsCodeExt  == <<".vscode", "/", "extensions", ".", "json">>
GhAction   == <<".github", "/", "deploy-theme", ".", "yaml">>
Readme     == <<"README", ".", "md">>
\* a script in the directory assets/js/index-page, and a map widget's script
JsPageSlider ==
    <<"assets", "/", "js", "/", "index", "-page", "/", "slider", ".", "js">>
JsMapIndex == <<"assets", "/", "js", "/", "map", "/", "index", ".", "js">>
\* a script created while watching, the driver script, a dependency
JsIndexPage == <<"assets", "/", "js", "/", "index", "-page", ".", "js">>
DevJs       == <<"dev", ".", "js">>
NodeModule  == <<"node_modules", "/", "esbuild", "/", "main", ".", "js">>

JsRoot  == <<"assets", "/", "js">>
CssRoot == <<"assets", "/", "css">>

\* String.prototype.endsWith on token sequences
endsWith(s, suffix) ==
    /\ Len(s) >= Len(suffix)
    /\ SubSeq(s, Len(s) - Len(suffix) + 1, Len(s)) = suffix

\* String.prototype.includes on token sequences
includes(s, part) ==
    \E i \in 1..(Len(s) - Len(part) + 1) : SubSeq(s, i, i + Len(part) - 1) = part

\* path.join(dir, entry)
join(dir, entry) == dir \o <<"/">> \o entry

----------------------------------------------------------------------------
(* The file system: the sequence of the files on disk, in the order the    *)
(* platform enumerates them.  A directory exists iff a file lies under it. *)

IsUnder(p, dir) ==
    /\ Len(p) > Len(dir) + 1
    /\ SubSeq(p, 1, Len(dir)) = dir
    /\ p[Len(dir) + 1] = "/"

\* the name of the entry of dir on the way to p
ChildName(p, dir) ==
    LET rest == SubSeq(p, Len(dir) + 2, Len(p))
        cut  == IF \E i \in 1..Len(rest) : rest[i] = "/"
                THEN CHOOSE i \in 1..Len(rest) :
                        /\ rest[i] = "/"
                        /\ \A j \in 1..(i - 1) : rest[j] # "/"
                ELSE Len(rest) + 1
    IN  SubSeq(rest, 1, cut - 1)

InSeq(x, s) == \E i \in 1..Len(s) : s[i] = x

exists(disk, p) == InSeq(p, disk)

isDirectory(disk, p) == \E i \in 1..Len(disk) : IsUnder(disk[i], p)

\* fs.readdir: the entries of dir, each once, in enumeration order
\* (it throws ENOENT when the directory does not exist: readdirThrows)
RECURSIVE readdirFrom(_, _, _, _)
readdirFrom(disk, dir, i, acc) ==
    IF i > Len(disk) THEN acc
    ELSE IF IsUnder(disk[i], dir) /\ ~InSeq(ChildName(disk[i], dir), acc)
         THEN readdirFrom(disk, dir, i + 1, Append(acc, ChildName(disk[i], dir)))
         ELSE readdirFrom(disk, dir, i + 1, acc)

readdir(disk, dir) == readdirFrom(disk, dir, 1, <<>>)

readdirThrows(disk, dir) == ~isDirectory(disk, dir)

\* findFilesRecursively: depth-first, files pushed in traversal order
RECURSIVE traverseDirectory(_, _)
RECURSIVE traverseEntries(_, _, _, _)
traverseEntries(disk, dir, entries, i) ==
    IF i > Len(entries) THEN <<>>
    ELSE LET fullPath == join(dir, entries[i])
         IN  (IF isDirectory(disk, fullPath)
              THEN traverseDirectory(disk, fullPath)
              ELSE <<fullPath>>)
             \o traverseEntries(disk, dir, entries, i + 1)

traverseDirectory(disk, dir) ==
    traverseEntries(disk, dir, readdir(disk, dir), 1)

findFilesRecursively(disk, directory) == traverseDirectory(disk, directory)

\* the filter of findEntryPoints
IsEntryPoint(file, exts) ==
    includes(file, <<"index">>) /\ \E ext \in exts : endsWith(file, ext)

\* findEntryPoints: the files under the root that include "index" and end
\* with one of the extensions (Array.prototype.filter is SelectSeq);
\* when the traversal throws, the catch block logs and the function returns
\* undefined (defined = FALSE).
findEntryPoints(disk, entryPointPath, exts) ==
    IF readdirThrows(disk, entryPointPath)
    THEN [defined |-> FALSE, files |-> <<>>]
    ELSE LET Keep(file) == IsEntryPoint(file, exts)
         IN  [defined |-> TRUE,
              files |-> SelectSeq(findFilesRecursively(disk, entryPointPath),
                                  Keep)]

JsExts  == {<<".", "ts">>, <<".", "js">>}
CssExts == {<<".", "css">>}

----------------------------------------------------------------------------
(* The bundler (esbuild.build), an external capability: it rejects, or it  *)
(* resolves with the inputs it consumed and the outputs it wrote.          *)

\* the files an entry point may pull in besides itself
Importable(entry) ==
    IF entry = JsIndex THEN {JsUtil, JsLibIndex}
    ELSE IF entry = JsLibIndex THEN {JsUtil}
    ELSE IF entry = TsIndex THEN {JsUtil}
    ELSE IF entry = CssIndex THEN {CssGhost}
    ELSE {}

\* Object.keys(res.metafile.inputs): the entry and some of what it may import
InputChoices(entry) ==
    {{entry}, {entry} \cup Importable(entry)}

\* outbase "assets", outdir "assets/built": the artifact mirrors the entry's
\* path below assets; a .ts entry compiles to .js
outfile(entry) ==
    LET rel  == SubSeq(entry, 2, Len(entry) - 1)
        last == IF entry[Len(entry)] = "ts" THEN "js" ELSE entry[Len(entry)]
    IN  <<"assets", "/", "built">> \o rel \o <<last>>

\* Object.entries(res.metafile.outputs): the source map and the artifact
outputs(entry) ==
    <<outfile(entry) \o <<".", "map">>, outfile(entry)>>

\* the reduce of writeAssets: the outputs whose key does not include "map"
vals(outs) ==
    LET NotMap(key) == ~includes(key, <<"map">>)
    IN  SelectSeq(outs, NotMap)

----------------------------------------------------------------------------
(* State *)

VARIABLES
    pc,               \* where the process is: "skeleton", "discover",
                      \* "building", "watching", "exit0", "exit1",
                      \* "crashed" (unhandled rejection or exception ended
                      \* the process), "stalled" (init rejected, the process
                      \* idles with no handler registered)
    argv,             \* [isWatch, isInit]
    disk,             \* the files on disk, in enumeration order
    tree,             \* the Map tree: a function from the input paths set
                      \* so far to their entry path
    calls,            \* the writeAssets invocations whose esbuild.build is
                      \* pending
    invoked,          \* history: every writeAssets invocation, in order
    events,           \* history: the paths of the watcher events handled
    built,            \* history: every resolved esbuild.build, in order
    failed,           \* history: the invocations that a rejection ended
    printed,          \* history: the reports of printCompilationDetails
    sent,             \* history: the broadcasts, in order
    clients,          \* wss.clients: client -> "absent", "open", "closing"
    timer,            \* the timeout int: "unset", "armed", "fired", "cleared"
    now,              \* milliseconds since initWs
    header,           \* what printHeader last displayed
    firstConnection,  \* the flag of initWs
    siteData,         \* the last client metadata (NoSiteData: false)
    received,         \* the last message a client sent, <<>> before the first
    url               \* the site address found by parseGhostCliOutput

vars == <<pc, argv, disk, tree, calls, invoked, events, built, failed, printed,
          sent, clients, timer, now, header, firstConnection, siteData,
          received, url>>

\* the clients that may connect
Clients == {"c1"}

\* the paths of the watcher events the model follows
WatchedPaths == {JsIndex, JsUtil, JsLibIndex, CssGhost, PostHbs, Readme}
TemplatePaths == {PostHbs, IndexHbs}

\* the launches considered: the flags and the disk the process starts on
DiskFull  == <<JsUtil, JsIndex, CssIndex, CssGhost, PostHbs>>
DiskNoCss == <<JsUtil, JsIndex, PostHbs>>
DiskNoJs  == <<CssGhost, CssIndex, IndexHbs>>
DiskTs    == <<TsIndex, JsUtil>>
DiskLib   == <<JsUtil, JsLibIndex, JsIndex, CssIndex>>
DiskPage  == <<JsPageSlider, JsIndex, CssIndex>>
DiskMap   == <<JsIndex, JsMapIndex, CssIndex>>

\* siteData = false: every field of it reads undefined
NoSiteData ==
    [url |-> "undefined", title |-> "undefined", version |-> "undefined"]

Launches ==
    { [isWatch |-> TRUE,  isInit |-> FALSE, disk |-> DiskFull],
      [isWatch |-> TRUE,  isInit |-> FALSE, disk |-> DiskNoCss],
      [isWatch |-> FALSE, isInit |-> FALSE, disk |-> DiskLib],
      [isWatch |-> FALSE, isInit |-> FALSE, disk |-> DiskNoJs],
      [isWatch |-> FALSE, isInit |-> FALSE, disk |-> DiskPage],
      [isWatch |-> FALSE, isInit |-> FALSE, disk |-> DiskMap],
      [isWatch |-> FALSE, isInit |-> TRUE,  disk |-> DiskTs],
      [isWatch |-> FALSE, isInit |-> TRUE,  disk |-> <<>>] }

\* the state when the module has loaded, before init() runs, for launch l
\* and the clients cs that may connect later
Loaded(l, cs) ==
        /\ argv = [isWatch |-> l.isWatch, isInit |-> l.isInit]
        /\ disk = l.disk
        /\ pc = IF l.isInit THEN "skeleton" ELSE "discover"
        /\ tree = [p \in {} |-> None]
        /\ calls = {}
        /\ invoked = <<>>
        /\ events = <<>>
        /\ built = <<>>
        /\ failed = {}
        /\ printed = <<>>
        /\ sent = <<>>
        /\ clients = [c \in cs |-> "absent"]
        /\ timer = "unset"
        /\ now = 0
        /\ header = "none"
        /\ firstConnection = TRUE
        /\ siteData = NoSiteData
        /\ received = <<>>
        /\ url = "undefined"

Init == \E l \in Launches : Loaded(l, Clients)

----------------------------------------------------------------------------
(* Helpers of the handlers *)

\* Map.prototype.get: undefined (None) for a key never set
get(map, key) == IF key \in DOMAIN map THEN map[key] ELSE None

\* setAll with a slip: an input that has an owner keeps it
setAll_keepOwner(map, inputs, entry) ==
    [p \in DOMAIN map \cup inputs |->
        IF p \in DOMAIN map THEN map[p] ELSE entry]

\* setAll with a slip: only the entry itself is recorded
setAll_entryOnly(map, inputs, entry) ==
    [p \in DOMAIN map \cup {entry} |-> IF p = entry THEN entry ELSE map[p]]

\* setAll with a slip: what the entry owned and no longer consumes is deleted
setAll_dropStale(map, inputs, entry) ==
    LET kept == {p \in DOMAIN map : map[p] # entry}
    IN  [p \in kept \cup inputs |-> IF p \in inputs THEN entry ELSE map[p]]

\* the forEach of writeAssets: tree.set(input, entry) for every input
setAll(map, inputs, entry) ==
    [p \in DOMAIN map \cup inputs |-> IF p \in inputs THEN entry ELSE map[p]]

\* printHeader: the status line it displays
printHeader(connectionError, first, data) ==
    IF connectionError THEN "noconn"
    ELSE IF first THEN "connected"
    ELSE IF data.version # "undefined" THEN "site"
    ELSE "visit"

\* OpenClients with a slip: the readyState test is missing
OpenClients_connected == {c \in DOMAIN clients : clients[c] # "absent"}

\* the clients a broadcast reaches: readyState === WebSocket.OPEN
OpenClients == {c \in DOMAIN clients : clients[c] = "open"}

\* hbsMessage with a slip: the prefix of the build notification
hbsMessage_filePrefix(path) == <<"File changed: ">> \o path

\* "HBS changed: " + path
hbsMessage(path) == <<"HBS changed: ">> \o path

\* `File changed: ${path}`
fileMessage(path) == <<"File changed: ">> \o path

\* the test of the handler for a script or style path
IsAsset(path) ==
    \/ endsWith(path, <<".", "css">>)
    \/ endsWith(path, <<".", "js">>)
    \/ endsWith(path, <<".", "ts">>)

\* /index\.(css|js|ts)$/.test(path)
IsIndexFile(path) ==
    \E ext \in {"css", "js", "ts"} : endsWith(path, <<"index", ".", ext>>)

\* rootFileOf with a slip: a file nothing recorded is its own entry point
rootFileOf_selfWhenUnknown(map, path) ==
    IF IsIndexFile(path) \/ path \notin DOMAIN map THEN path ELSE map[path]

\* lines 414-418 of the handler: the entry point to rebuild, None if unknown
rootFileOf(map, path) ==
    IF IsIndexFile(path) THEN path ELSE get(map, path)

\* the outcomes of an unhandled rejection: the runtime ends the process, or
\* (older runtimes) warns and goes on
Unhandled(goOn) == {"crashed", goOn}

----------------------------------------------------------------------------
(* makeSkeleton (--init): writes each missing file of filesToCheck; the    *)
(* script placeholder is skipped when assets/js/index.ts exists.           *)

filesToCheck ==
    <<IndexHbs, PostHbs, DefaultHbs, CssIndex, CssGhost, JsIndex, VsCodeExt,
      GhAction>>

RECURSIVE writeMissing(_, _, _)
writeMissing(d0, d, i) ==
    IF i > Len(filesToCheck) THEN d
    ELSE LET file  == filesToCheck[i]
             write == /\ ~exists(d0, file)
                      /\ (endsWith(file, <<".", "js">>) => ~exists(d0, TsIndex))
         IN  writeMissing(d0, IF write THEN Append(d, file) ELSE d, i + 1)

MakeSkeleton ==
    /\ pc = "skeleton"
    /\ disk' = writeMissing(disk, disk, 1)
    /\ pc' = "discover"
    /\ UNCHANGED <<argv, tree, calls, invoked, events, built, failed, printed,
                   sent, clients, timer, now, header, firstConnection,
                   siteData, received, url>>

----------------------------------------------------------------------------
(* init after writeAssets returned res: watch mode asks the site manager   *)
(* for the address and starts initWs; one-shot mode prints and exits.      *)

Sites == {"none", "http://localhost:2368"}

\* the report printCompilationDetails prints
report(id, res, change, firstTime) ==
    [call |-> id, results |-> res, change |-> change, firstTime |-> firstTime]

\* AfterInitBuild with a slip: process.exit(0) is missing, and the watcher
\* created at load keeps the process alive
AfterInitBuild_noExit(res) ==
    IF argv.isWatch
    THEN \E site \in Sites :
            IF site = "none"
            THEN /\ pc' = "exit1"
                 /\ UNCHANGED <<url, timer, header, printed>>
            ELSE /\ url' = site
                 /\ timer' = "armed"
                 /\ header' = printHeader(FALSE, FALSE, siteData)
                 /\ printed' = Append(printed, report(0, res, None, TRUE))
                 /\ pc' = "watching"
    ELSE /\ printed' = Append(printed, report(0, res, None, FALSE))
         /\ pc' = "stalled"
         /\ UNCHANGED <<url, timer, header>>

\* init after `await writeAssets(...)` returned res (lines 278-285)
AfterInitBuild(res) ==
    IF argv.isWatch
    THEN \E site \in Sites :
            IF site = "none"
            THEN /\ pc' = "exit1"
                 /\ UNCHANGED <<url, timer, header, printed>>
            ELSE /\ url' = site
                 /\ timer' = "armed"
                 /\ header' = printHeader(FALSE, FALSE, siteData)
                 /\ printed' = Append(printed, report(0, res, None, TRUE))
                 /\ pc' = "watching"
    ELSE /\ printed' = Append(printed, report(0, res, None, FALSE))
         /\ pc' = "exit0"
         /\ UNCHANGED <<url, timer, header>>

\* a writeAssets invocation: its batch, the entry being built, the results
\* so far, and its caller's change event (0 and None for init)
call(id, batch, ev, change) ==
    [id |-> id, batch |-> batch, idx |-> 1, results |-> <<>>, ev |-> ev,
     change |-> change]

\* init: discovery of both roots, then writeAssets of the spread of the two
\* lists; spreading undefined throws
Discover ==
    /\ pc = "discover"
    /\ LET jsEntryPoints  == findEntryPoints(disk, JsRoot, JsExts)
           cssEntryPoints == findEntryPoints(disk, CssRoot, CssExts)
       IN  IF ~jsEntryPoints.defined \/ ~cssEntryPoints.defined
           THEN /\ pc' \in Unhandled("stalled")
                /\ UNCHANGED <<calls, invoked, printed, url, timer, header>>
           ELSE LET batch == jsEntryPoints.files \o cssEntryPoints.files
                IN  /\ invoked' = Append(invoked, [id |-> 0, ev |-> 0,
                                                   batch |-> batch])
                    /\ IF batch = <<>>
                       THEN /\ AfterInitBuild(<<>>)
                            /\ UNCHANGED calls
                       ELSE /\ calls' = {call(0, batch, 0, None)}
                            /\ pc' = "building"
                            /\ UNCHANGED <<printed, url, timer, header>>
    /\ UNCHANGED <<argv, disk, tree, events, built, failed, sent, clients, now,
                   firstConnection, siteData, received>>

----------------------------------------------------------------------------
(* The watcher.on("all") handler, up to its first suspension: a template   *)
(* path is broadcast at once; a script or style path is resolved to its    *)
(* entry point and writeAssets([rootFile]) starts.                         *)

broadcast(ev, msg) == [ev |-> ev, msg |-> msg, to |-> OpenClients]

\* OnAll with a slip: an event whose entry point is already being rebuilt
\* starts no rebuild of its own
OnAll_coalesce(path) ==
    /\ pc = "watching"
    /\ Len(events) < MaxEvents
    /\ events' = Append(events, path)
    /\ LET ev == Len(events) + 1
           rootFile == rootFileOf(tree, path)
       IN  /\ IF endsWith(path, <<".", "hbs">>)
              THEN /\ header' = printHeader(FALSE, FALSE, siteData)
                   /\ sent' = Append(sent, broadcast(ev, hbsMessage(path)))
              ELSE UNCHANGED <<header, sent>>
           /\ IF /\ IsAsset(path)
                 /\ rootFile # None
                 /\ \A c \in calls : c.batch # <<rootFile>>
              THEN /\ invoked' = Append(invoked, [id |-> Len(invoked), ev |-> ev,
                                                  batch |-> <<rootFile>>])
                   /\ calls' = calls \cup
                                 {call(Len(invoked), <<rootFile>>, ev, path)}
              ELSE UNCHANGED <<invoked, calls>>
    /\ UNCHANGED <<pc, argv, disk, tree, built, failed, printed, clients,
                   timer, now, firstConnection, siteData, received, url>>

OnAll(path) ==
    /\ pc = "watching"
    /\ Len(events) < MaxEvents
    /\ events' = Append(events, path)
    /\ LET ev == Len(events) + 1
           rootFile == rootFileOf(tree, path)
       IN  /\ IF endsWith(path, <<".", "hbs">>)
              THEN /\ header' = printHeader(FALSE, FALSE, siteData)
                   /\ sent' = Append(sent, broadcast(ev, hbsMessage(path)))
              ELSE UNCHANGED <<header, sent>>
           /\ IF IsAsset(path) /\ rootFile # None
              THEN /\ invoked' = Append(invoked, [id |-> Len(invoked), ev |-> ev,
                                                  batch |-> <<rootFile>>])
                   /\ calls' = calls \cup
                                 {call(Len(invoked), <<rootFile>>, ev, path)}
              ELSE UNCHANGED <<invoked, calls>>
    /\ UNCHANGED <<pc, argv, disk, tree, built, failed, printed, clients,
                   timer, now, firstConnection, siteData, received, url>>

\* the names that begin with a dot
DotNames == {".vscode", ".github", ".env"}

\* /(^|[\/\\])\../.test(path): a name of the path begins with a dot
matchesDotfile(path) ==
    \E i \in 1..Len(path) :
        /\ i = 1 \/ path[i - 1] = "/"
        /\ path[i] \in DotNames

\* the glob "**/built/**": the path lies below a directory called built
matchesBuilt(path) ==
    \E i \in 1..(Len(path) - 2) :
        /\ i = 1 \/ path[i - 1] = "/"
        /\ path[i] = "built"
        /\ path[i + 1] = "/"

\* ignored with a slip: the glob of the output directory is missing
ignored_noBuilt(path) ==
    \/ matchesDotfile(path)
    \/ path = DevJs
    \/ path = <<"node_modules">> \/ IsUnder(path, <<"node_modules">>)

\* the `ignored` option of chokidar.watch: the watcher reports no path that
\* matches one of the four patterns, and does not descend into an ignored
\* directory
ignored(path) ==
    \/ matchesDotfile(path)
    \/ matchesBuilt(path)
    \/ path = DevJs
    \/ path = <<"node_modules">> \/ IsUnder(path, <<"node_modules">>)

\* the watcher reports a change of path to the handler
Emit(path) == ~ignored(path) /\ OnAll(path)

----------------------------------------------------------------------------
(* writeAssets from one resolved esbuild.build to the next suspension: the *)
(* inputs are recorded in tree, the outputs collected; then the next entry *)
(* of the batch is built, or the invocation returns to its caller.         *)

\* AfterWatchBuild with a slip: the message names the rebuilt entry point
AfterWatchBuild_entryPath(c, res) ==
    /\ header' = printHeader(FALSE, FALSE, siteData)
    /\ printed' = Append(printed, report(c.id, res, c.change, FALSE))
    /\ sent' = Append(sent, broadcast(c.ev, fileMessage(c.batch[1])))
    /\ UNCHANGED <<pc, url, timer>>

\* AfterWatchBuild with a slip: the notification of every pending rebuild is
\* sent when one rebuild returns
AfterWatchBuild_notifyPending(c, res) ==
    /\ header' = printHeader(FALSE, FALSE, siteData)
    /\ printed' = Append(printed, report(c.id, res, c.change, FALSE))
    /\ \E other \in calls :
          sent' = Append(sent, broadcast(other.ev, fileMessage(other.change)))
    /\ UNCHANGED <<pc, url, timer>>

\* the handler after writeAssets returned res
AfterWatchBuild(c, res) ==
    /\ header' = printHeader(FALSE, FALSE, siteData)
    /\ printed' = Append(printed, report(c.id, res, c.change, FALSE))
    /\ sent' = Append(sent, broadcast(c.ev, fileMessage(c.change)))
    /\ UNCHANGED <<pc, url, timer>>

BuildResolve ==
    /\ pc \in {"building", "watching"}
    /\ \E c \in calls :
         LET entry == c.batch[c.idx] IN
         \E inputs \in InputChoices(entry) :
            LET res == c.results \o vals(outputs(entry)) IN
            /\ tree' = setAll(tree, inputs, entry)
            /\ built' = Append(built, [call |-> c.id, entry |-> entry,
                                       inputs |-> inputs])
            /\ IF c.idx < Len(c.batch)
               THEN /\ calls' = (calls \ {c}) \cup
                                  {[c EXCEPT !.idx = c.idx + 1, !.results = res]}
                    /\ UNCHANGED <<pc, url, timer, header, printed, sent>>
               ELSE /\ calls' = calls \ {c}
                    /\ IF c.ev = 0
                       THEN AfterInitBuild(res) /\ UNCHANGED sent
                       ELSE AfterWatchBuild(c, res)
    /\ UNCHANGED <<argv, disk, invoked, events, failed, clients, now,
                   firstConnection, siteData, received>>

\* BuildReject with a slip: what the failed invocation recorded is removed
BuildReject_rollback ==
    /\ pc \in {"building", "watching"}
    /\ \E c \in calls :
        /\ calls' = calls \ {c}
        /\ failed' = failed \cup {[call |-> c.id, idx |-> c.idx]}
        /\ pc' \in Unhandled(IF c.ev = 0 THEN "stalled" ELSE "watching")
        /\ LET mine == UNION {built[k].inputs :
                                k \in {j \in 1..Len(built) : built[j].call = c.id}}
           IN  tree' = [p \in DOMAIN tree \ mine |-> tree[p]]
    /\ UNCHANGED <<argv, disk, invoked, events, built, printed, sent,
                   clients, timer, now, header, firstConnection, siteData,
                   received, url>>

\* esbuild.build rejects: the error leaves writeAssets and its caller, an
\* async function nobody awaits
BuildReject ==
    /\ pc \in {"building", "watching"}
    /\ \E c \in calls :
        /\ calls' = calls \ {c}
        /\ failed' = failed \cup {[call |-> c.id, idx |-> c.idx]}
        /\ pc' \in Unhandled(IF c.ev = 0 THEN "stalled" ELSE "watching")
    /\ UNCHANGED <<argv, disk, tree, invoked, events, built, printed, sent,
                   clients, timer, now, header, firstConnection, siteData,
                   received, url>>

----------------------------------------------------------------------------
(* The notification channel *)

\* Connect with a slip: the timeout is not cleared
Connect_keepTimer(c) ==
    /\ pc = "watching"
    /\ clients[c] = "absent"
    /\ clients' = [clients EXCEPT ![c] = "open"]
    /\ IF firstConnection
       THEN /\ header' = printHeader(FALSE, TRUE, siteData)
            /\ firstConnection' = FALSE
       ELSE UNCHANGED <<header, firstConnection>>
    /\ UNCHANGED <<pc, argv, disk, tree, calls, invoked, events, built, failed,
                   printed, sent, timer, now, siteData, received, url>>

\* wss.on("connection")
Connect(c) ==
    /\ pc = "watching"
    /\ clients[c] = "absent"
    /\ clients' = [clients EXCEPT ![c] = "open"]
    /\ timer' = IF timer = "armed" THEN "cleared" ELSE timer
    /\ IF firstConnection
       THEN /\ header' = printHeader(FALSE, TRUE, siteData)
            /\ firstConnection' = FALSE
       ELSE UNCHANGED <<header, firstConnection>>
    /\ UNCHANGED <<pc, argv, disk, tree, calls, invoked, events, built, failed,
                   printed, sent, now, siteData, received, url>>

\* the client starts to close: it stays in wss.clients, no longer OPEN
ClientClosing(c) ==
    /\ pc = "watching"
    /\ clients[c] = "open"
    /\ clients' = [clients EXCEPT ![c] = "closing"]
    /\ UNCHANGED <<pc, argv, disk, tree, calls, invoked, events, built, failed,
                   printed, sent, timer, now, header, firstConnection,
                   siteData, received, url>>

\* the transport drops the closed client from wss.clients
ClientGone(c) ==
    /\ pc = "watching"
    /\ clients[c] = "closing"
    /\ clients' = [clients EXCEPT ![c] = "absent"]
    /\ UNCHANGED <<pc, argv, disk, tree, calls, invoked, events, built, failed,
                   printed, sent, timer, now, header, firstConnection,
                   siteData, received, url>>

\* the payloads a client may send: JSON with url, title and version, JSON
\* without a version, and text that is no JSON
Payloads ==
    { [json |-> TRUE, url |-> "http://localhost:2368/", title |-> "Blog",
       version |-> "Ghost 5.0"],
      [json |-> TRUE, url |-> "http://localhost:2368/post/", title |-> "Post",
       version |-> "undefined"],
      [json |-> FALSE, url |-> "undefined", title |-> "undefined",
       version |-> "undefined"] }

\* OnMessage with a slip: the fields of the message are merged into the
\* metadata held, a field the message lacks keeps its value
OnMessage_merge(c, message) ==
    /\ pc = "watching"
    /\ clients[c] = "open"
    /\ received' = <<message>>
    /\ IF message.json
       THEN /\ siteData' =
                 [f \in DOMAIN siteData |->
                     IF message[f] = "undefined" THEN siteData[f]
                     ELSE message[f]]
            /\ UNCHANGED pc
       ELSE /\ pc' = "crashed"
            /\ UNCHANGED siteData
    /\ UNCHANGED <<argv, disk, tree, calls, invoked, events, built, failed,
                   printed, sent, clients, timer, now, header, firstConnection,
                   url>>

\* ws.on("message"): JSON.parse, then siteData = {url, title, version};
\* JSON.parse throws on text that is no JSON, and nothing catches it
OnMessage(c, message) ==
    /\ pc = "watching"
    /\ clients[c] = "open"
    /\ received' = <<message>>
    /\ IF message.json
       THEN /\ siteData' = [url |-> message.url, title |-> message.title,
                            version |-> message.version]
            /\ UNCHANGED pc
       ELSE /\ pc' = "crashed"
            /\ UNCHANGED siteData
    /\ UNCHANGED <<argv, disk, tree, calls, invoked, events, built, failed,
                   printed, sent, clients, timer, now, header, firstConnection,
                   url>>

----------------------------------------------------------------------------
(* The clock and the connection-health timer of initWs.  A due timer runs  *)
(* before the clock advances further.                                      *)

Tick ==
    /\ pc = "watching"
    /\ now < MaxTicks * TickMs
    /\ ~(timer = "armed" /\ now >= GracePeriod)
    /\ now' = now + TickMs
    /\ UNCHANGED <<pc, argv, disk, tree, calls, invoked, events, built, failed,
                   printed, sent, clients, timer, header, firstConnection,
                   siteData, received, url>>

\* the callback of setTimeout: printHeader(true)
TimerFire ==
    /\ pc = "watching"
    /\ timer = "armed"
    /\ now >= GracePeriod
    /\ timer' = "fired"
    /\ header' = printHeader(TRUE, FALSE, siteData)
    /\ UNCHANGED <<pc, argv, disk, tree, calls, invoked, events, built, failed,
                   printed, sent, clients, now, firstConnection, siteData,
                   received, url>>

----------------------------------------------------------------------------
(* Specifications *)

Startup == MakeSkeleton \/ Discover

\* the build-and-notify pipeline
Next ==
    \/ Startup
    \/ \E path \in WatchedPaths : OnAll(path)
    \/ BuildResolve
    \/ BuildReject
    \/ \E c \in Clients : Connect(c)
    \/ \E c \in Clients : ClientClosing(c)
    \/ \E c \in Clients : ClientGone(c)

Spec == Init /\ [][Next]_vars

\* the notification channel with two clients: the watch launch, template
\* and script events
ChannelClients == {"c1", "c2"}

ChannelPaths == {PostHbs, JsUtil}

InitChannel ==
    Loaded([isWatch |-> TRUE, isInit |-> FALSE, disk |-> DiskFull],
           ChannelClients)

NextChannel ==
    \/ Discover
    \/ \E path \in ChannelPaths : OnAll(path)
    \/ BuildResolve
    \/ BuildReject
    \/ \E c \in ChannelClients : Connect(c)
    \/ \E c \in ChannelClients : ClientClosing(c)
    \/ \E c \in ChannelClients : ClientGone(c)

SpecChannel == InitChannel /\ [][NextChannel]_vars

\* the watcher: changes of sources, of a script created while watching, of
\* the artifacts the builds write, of hidden files, of the driver script and
\* of a dependency
FsPaths ==
    {JsIndex, JsUtil, JsIndexPage, PostHbs, DevJs, NodeModule, VsCodeExt,
     GhAction}
        \cup {outputs(e)[k] : e \in {JsIndex, CssIndex}, k \in 1..2}

InitWatcher ==
    Loaded([isWatch |-> TRUE, isInit |-> FALSE, disk |-> DiskFull], Clients)

NextWatcher ==
    \/ Discover
    \/ \E path \in FsPaths : Emit(path)
    \/ BuildResolve
    \/ BuildReject

SpecWatcher == InitWatcher /\ [][NextWatcher]_vars

\* the header display: template events, connections, client metadata and
\* the connection-health timer
NextDisplay ==
    \/ Startup
    \/ BuildResolve
    \/ BuildReject
    \/ \E path \in TemplatePaths : OnAll(path)
    \/ \E c \in Clients : Connect(c)
    \/ \E c \in Clients : ClientClosing(c)
    \/ \E c \in Clients : ClientGone(c)
    \/ \E c \in Clients, message \in Payloads : OnMessage(c, message)
    \/ Tick
    \/ TimerFire

SpecDisplay == Init /\ [][NextDisplay]_vars

----------------------------------------------------------------------------
(* Properties *)

Last(s) == s[Len(s)]

\* a watcher event is handled in this step; NewPath is its path
Arrived == Len(events') = Len(events) + 1
NewPath == events'[Len(events')]

\* the esbuild.build of the last entry of c's batch resolves in this step
Completes(c) ==
    /\ c \in calls
    /\ c.idx = Len(c.batch)
    /\ Len(built') = Len(built) + 1
    /\ built'[Len(built')].call = c.id

\* every input any resolved build consumed
InputsEver == UNION {built[k].inputs : k \in 1..Len(built)}

\* the entry of the latest resolved build that consumed p
LastConsumer(p) ==
    LET k == CHOOSE k \in 1..Len(built) :
                /\ p \in built[k].inputs
                /\ \A j \in (k + 1)..Len(built) : p \notin built[j].inputs
    IN  built[k].entry

\* the invocations of writeAssets made for event ev
InvokedFor(inv, ev) == {k \in 1..Len(inv) : inv[k].ev = ev}

\* C1 (as claimed): rebuilds never interleave, at most one writeAssets
\* invocation is in flight in every reachable state.
C1_OneRebuildInFlight == Cardinality(calls) <= 1

\* C2: a change event for a non-entry script or style file recorded under
\* entry E invokes writeAssets exactly once, with the batch [E], and when
\* that build succeeds the broadcast is "File changed: " + the changed path.
C2_RecordedFileRebuildsOwner ==
    [][ /\ (Arrived /\ IsAsset(NewPath) /\ ~IsIndexFile(NewPath)
                    /\ NewPath \in DOMAIN tree)
            => /\ Len(invoked') = Len(invoked) + 1
               /\ Last(invoked').batch = <<tree[NewPath]>>
               /\ Last(invoked').ev = Len(events')
               /\ Cardinality(InvokedFor(invoked', Len(events'))) = 1
        /\ \A c \in calls :
            (Completes(c) /\ c.ev > 0 /\ ~IsIndexFile(events[c.ev]))
            => /\ Len(sent') = Len(sent) + 1
               /\ Last(sent').ev = c.ev
               /\ Last(sent').msg = <<"File changed: ">> \o events[c.ev]
               /\ Cardinality(InvokedFor(invoked', c.ev)) = 1
      ]_vars

C2_Witness ==
    \E k \in 1..Len(sent), j \in 1..Len(invoked) :
        /\ sent[k].msg = <<"File changed: ">> \o JsUtil
        /\ invoked[j].ev = sent[k].ev
        /\ invoked[j].batch = <<JsIndex>>

\* C3: a change event for a path ending in .hbs invokes no build, leaves
\* the tree unchanged and broadcasts exactly "HBS changed: " + path.
C3_TemplateChangeOnlyBroadcasts ==
    [][ (Arrived /\ endsWith(NewPath, <<".", "hbs">>))
        => /\ invoked' = invoked
           /\ calls' = calls
           /\ built' = built
           /\ tree' = tree
           /\ Len(sent') = Len(sent) + 1
           /\ Last(sent').ev = Len(events')
           /\ Last(sent').msg = <<"HBS changed: ">> \o NewPath
           /\ Last(sent').to = {c \in Clients : clients[c] = "open"}
      ]_vars

C3_Witness ==
    \E k \in 1..Len(sent) :
        /\ sent[k].msg = <<"HBS changed: ">> \o PostHbs
        /\ InvokedFor(invoked, sent[k].ev) = {}
        /\ sent[k].to # {}

\* the paths the resolution is probed with
ProbePaths == WatchedPaths \cup {CssIndex, TsIndex}

NeverRecordedUnresolved ==
    \A p \in ProbePaths :
        (~IsIndexFile(p) /\ p \notin InputsEver) => rootFileOf(tree, p) = None

\* C4 (as claimed): after a successful build of E that consumed S, every
\* path of S resolves to E, and a non-entry path no build recorded is
\* unresolved.
C4_EveryInputResolvesToEntry ==
    /\ built # <<>> =>
          \A p \in Last(built).inputs : rootFileOf(tree, p) = Last(built).entry
    /\ NeverRecordedUnresolved

\* C4 (amended): after a successful build of E that consumed S, every path
\* of S that does not match /index\.(css|js|ts)$/ resolves to E, a path of
\* S that matches it resolves to itself, and a non-entry path no build
\* recorded is unresolved.
C4_NonIndexInputResolvesToEntry ==
    /\ built # <<>> =>
          \A p \in Last(built).inputs :
              rootFileOf(tree, p) =
                  IF IsIndexFile(p) THEN p ELSE Last(built).entry
    /\ NeverRecordedUnresolved

C4_Witness ==
    /\ built # <<>>
    /\ Last(built).entry = JsIndex
    /\ Last(built).inputs = {JsIndex, JsUtil, JsLibIndex}
    /\ rootFileOf(tree, JsUtil) = JsIndex
    /\ rootFileOf(tree, JsLibIndex) = JsLibIndex
    /\ rootFileOf(tree, CssGhost) = None

\* C5: every recorded input maps to one entry point, the one of the most
\* recent resolved build that consumed it; the recorded inputs are the
\* inputs of the resolved builds.
C5_TreeHoldsLastConsumer ==
    /\ DOMAIN tree = InputsEver
    /\ \A p \in DOMAIN tree : tree[p] = LastConsumer(p)

\* an owner was overwritten by a later build of another entry, within one
\* batch
C5_Witness ==
    \E i, j \in 1..Len(built) :
        /\ i < j
        /\ built[i].call = built[j].call
        /\ built[i].entry # built[j].entry
        /\ JsUtil \in built[i].inputs \cap built[j].inputs
        /\ tree[JsUtil] = built[j].entry

----------------------------------------------------------------------------

\* C6: change events are never coalesced: every event whose script or style
\* path resolves to an entry point starts exactly one rebuild of that entry
\* point, also while a rebuild (of the same entry point) is pending; no
\* other step starts a rebuild.
C6_OneRebuildPerQualifyingEvent ==
    [][ /\ (Arrived /\ IsAsset(NewPath) /\ rootFileOf(tree, NewPath) # None)
            => /\ Len(invoked') = Len(invoked) + 1
               /\ SubSeq(invoked', 1, Len(invoked)) = invoked
               /\ Last(invoked').ev = Len(events')
               /\ Last(invoked').batch = <<rootFileOf(tree, NewPath)>>
               /\ \E c \in calls' \ calls :
                     /\ c.ev = Len(events')
                     /\ c.batch = <<rootFileOf(tree, NewPath)>>
                     /\ calls' = calls \cup {c}
        /\ (Arrived /\ ~(IsAsset(NewPath) /\ rootFileOf(tree, NewPath) # None))
            => invoked' = invoked /\ calls' \subseteq calls
        /\ (~Arrived /\ pc = "watching") => invoked' = invoked
        /\ \A ev \in 1..Len(events') :
              Cardinality(InvokedFor(invoked', ev)) <= 1
      ]_vars

\* two events for the same entry point, both rebuilds pending
C6_Witness ==
    \E c1, c2 \in calls :
        /\ c1.ev # c2.ev
        /\ c1.batch = c2.batch
        /\ Len(invoked) = 3

\* C7 (as claimed): the notifications that reach a client are broadcast in
\* the arrival order of their change events.
C7_NotificationsInArrivalOrder ==
    \A i, j \in 1..Len(sent) :
        (i < j /\ sent[i].to # {} /\ sent[j].to # {}) => sent[i].ev < sent[j].ev

\* the resolved builds of invocation id, in order
BuiltBy(id) ==
    LET Mine(b) == b.call = id IN SelectSeq(built, Mine)

\* C8: when the bundler rejects entry k of a batch, the entries 1..k-1 of
\* the batch stay recorded in the tree, nothing is recorded for entry k or
\* later, no report is printed and no notification is broadcast for that
\* invocation.
C8_RejectionKeepsEarlierEntries ==
    \A f \in failed :
        LET inv  == invoked[f.call + 1]
            mine == BuiltBy(f.call)
        IN  /\ [k \in 1..Len(mine) |-> mine[k].entry]
                  = SubSeq(inv.batch, 1, f.idx - 1)
            /\ \A k \in 1..Len(mine) : \A p \in mine[k].inputs :
                  p \in DOMAIN tree /\ tree[p] = LastConsumer(p)
            /\ \A k \in 1..Len(printed) : printed[k].call # f.call
            /\ \A k \in 1..Len(sent) : sent[k].ev # inv.ev

\* the second entry of the initial batch was rejected, the first is recorded
C8_Witness ==
    \E f \in failed :
        /\ f.call = 0
        /\ f.idx = 2
        /\ invoked[1].batch[1] \in DOMAIN tree
        /\ tree[invoked[1].batch[1]] = invoked[1].batch[1]

\* C9 (as claimed): when one source root cannot be read, startup goes on
\* and builds the entry points found under the other root.
C9_DiscoveryErrorNonFatal ==
    LET js  == findEntryPoints(disk, JsRoot, JsExts)
        css == findEntryPoints(disk, CssRoot, CssExts)
    IN  (pc \notin {"skeleton", "discover"} /\ js.defined # css.defined)
        => /\ invoked # <<>>
           /\ invoked[1].batch = js.files \o css.files

\* the first connection is handled in this step
FirstConnects == firstConnection /\ ~firstConnection'

\* C10: the connection-health timer.  With no connection in the grace
\* period the timer fires when the period is over and displays "no
\* connection"; a connection before it fires cancels it, and "no
\* connection" is not displayed from then on; a first connection after it
\* fired displays "connected".
C10_ConnectionHealthTimer ==
    /\ [](now > GracePeriod => timer # "armed")
    /\ [][ /\ (timer = "armed" /\ timer' = "fired")
               => /\ now >= GracePeriod
                  /\ firstConnection
                  /\ header' = "noconn"
           /\ (FirstConnects /\ timer = "armed") => timer' = "cleared"
           /\ (~firstConnection /\ timer # "fired")
               => (timer' # "fired" /\ header' # "noconn")
           /\ (FirstConnects /\ timer = "fired") => header' = "connected"
         ]_vars

\* the timer fired, "no connection" was displayed, then a client connected
C10_Witness ==
    /\ timer = "fired"
    /\ now > GracePeriod
    /\ ~firstConnection
    /\ header = "connected"

----------------------------------------------------------------------------

\* C11: a change event for a script or style path that is no index file
\* and that the tree does not record is dropped: no build, no report, no
\* message, no change of the tree or of the header.
C11_UnknownFileDropped ==
    [][ (Arrived /\ IsAsset(NewPath) /\ ~IsIndexFile(NewPath)
                 /\ NewPath \notin DOMAIN tree)
        => /\ invoked' = invoked
           /\ calls' = calls
           /\ built' = built
           /\ printed' = printed
           /\ sent' = sent
           /\ tree' = tree
           /\ header' = header
      ]_vars

\* an event for a stylesheet no build recorded was handled, nothing followed
C11_Witness ==
    /\ events = <<CssGhost>>
    /\ CssGhost \notin DOMAIN tree
    /\ Len(invoked) = 1
    /\ calls = {}
    /\ sent = <<>>
    /\ Len(printed) = 1

\* C12: recorded paths are never deleted and a mapping changes only when a
\* resolved build consumed the path: a rebuild of E that no longer consumes
\* x leaves x -> E, so a later event for x rebuilds E.
C12_RecordedPathsStay ==
    [][ \A p \in DOMAIN tree :
          /\ p \in DOMAIN tree'
          /\ tree'[p] # tree[p] =>
                /\ Len(built') = Len(built) + 1
                /\ p \in Last(built').inputs
                /\ tree'[p] = Last(built').entry
      ]_vars

\* util.js was consumed by index.js, the rebuild of index.js did not consume
\* it, and the event for util.js that followed rebuilt index.js
C12_Witness ==
    /\ Len(built) >= 3
    /\ \E i \in 1..Len(built) :
          /\ built[i].entry = JsIndex
          /\ JsUtil \in built[i].inputs
          /\ \A j \in (i + 1)..Len(built) : JsUtil \notin built[j].inputs
          /\ \E j \in (i + 1)..Len(built) : built[j].entry = JsIndex
    /\ tree[JsUtil] = JsIndex
    /\ events = <<JsIndex, JsUtil>>
    /\ Last(invoked).ev = 2
    /\ Last(invoked).batch = <<JsIndex>>

\* the messages of build notifications
IsFileMessage(msg) == msg[1] = "File changed: "

\* C20: a "File changed" notification is sent only when the rebuild its
\* event started has resolved and its inputs are recorded: the invocation is
\* neither pending nor failed, it was started, and its entry's build is in
\* the tree's history.
C20_NotifiedAfterBuild ==
    \A k \in 1..Len(sent) :
        IsFileMessage(sent[k].msg) =>
            /\ sent[k].ev \in 1..Len(events)
            /\ sent[k].msg = <<"File changed: ">> \o events[sent[k].ev]
            /\ \E j \in 1..Len(invoked) :
                  /\ invoked[j].ev = sent[k].ev
                  /\ \A c \in calls : c.id # invoked[j].id
                  /\ \A f \in failed : f.call # invoked[j].id
                  /\ Len(BuiltBy(invoked[j].id)) = Len(invoked[j].batch)
                  /\ \A b \in 1..Len(invoked[j].batch) :
                        /\ BuiltBy(invoked[j].id)[b].entry = invoked[j].batch[b]
                        /\ BuiltBy(invoked[j].id)[b].inputs \subseteq DOMAIN tree
                  /\ \E r \in 1..Len(printed) : printed[r].call = invoked[j].id

\* a notification was sent for the first event while the rebuild of the
\* second is pending
C20_Witness ==
    /\ \E k \in 1..Len(sent) : IsFileMessage(sent[k].msg) /\ sent[k].ev = 1
    /\ \E c \in calls : c.ev = 2

----------------------------------------------------------------------------

\* the entries the builds of invocation id resolved, in order
EntriesBuiltBy(id) ==
    [b \in 1..Len(BuiltBy(id)) |-> BuiltBy(id)[b].entry]

\* a launch without --watch
OneShot == ~argv.isWatch

\* C13 as stated: in one-shot mode, once the entry points are discovered,
\* the process does nothing but build them and exit with code 0.
C13_OneShotAlwaysExitsZero ==
    (OneShot /\ invoked # <<>>) => pc \in {"building", "exit0"}

\* C13, amended: in one-shot mode no client, timer, site or change event is
\* ever handled; init's one writeAssets invocation builds the discovered
\* entry points one at a time in batch order; unless the bundler rejected
\* an entry, the process is either still building or has printed the one
\* summary of every entry and exited with code 0.
C13_OneShotBuildsAndExits ==
    OneShot =>
        /\ pc # "watching"
        /\ events = <<>> /\ sent = <<>>
        /\ \A c \in DOMAIN clients : clients[c] = "absent"
        /\ timer = "unset" /\ url = "undefined" /\ header = "none"
        /\ Len(invoked) <= 1
        /\ Cardinality(calls) <= 1
        /\ invoked = <<>> => (built = <<>> /\ calls = {} /\ printed = <<>>)
        /\ invoked # <<>> =>
              LET batch == invoked[1].batch IN
              /\ Len(built) <= Len(batch)
              /\ EntriesBuiltBy(0) = SubSeq(batch, 1, Len(built))
              /\ \A c \in calls : c.id = 0 /\ c.batch = batch
                                           /\ c.idx = Len(built) + 1
              /\ pc = "exit0" => failed = {}
              /\ failed = {} =>
                    \/ pc = "building" /\ calls # {} /\ printed = <<>>
                    \/ /\ pc = "exit0"
                       /\ calls = {}
                       /\ EntriesBuiltBy(0) = batch
                       /\ Len(printed) = 1
                       /\ printed[1].call = 0
              /\ failed # {} => (printed = <<>> /\ pc \in Unhandled("stalled"))

\* a one-shot run that built three entry points and exited with code 0
C13_Witness ==
    /\ OneShot
    /\ pc = "exit0"
    /\ Len(invoked[1].batch) = 3
    /\ Len(built) = 3
    /\ Len(printed) = 1

----------------------------------------------------------------------------

\* C14: a broadcast is one message whose recipients are exactly the
\* connected clients that are open when it is sent, and sending it neither
\* adds nor removes a client.
C14_BroadcastToOpenClients ==
    [][ Len(sent') > Len(sent)
        => /\ Len(sent') = Len(sent) + 1
           /\ SubSeq(sent', 1, Len(sent)) = sent
           /\ Last(sent').to = {c \in DOMAIN clients : clients[c] = "open"}
           /\ clients' = clients
      ]_vars

\* a broadcast reached both clients, and the next one, sent while the second
\* client was closing, reached the first client only
C14_Witness ==
    /\ Len(sent) = 2
    /\ sent[1].to = {"c1", "c2"}
    /\ sent[2].to = {"c1"}
    /\ clients["c1"] = "open"
    /\ clients["c2"] = "closing"

----------------------------------------------------------------------------

\* C15: the site metadata is exactly the url, title and version of the last
\* well-formed message received, with nothing kept from earlier messages,
\* and it is the initial value before the first message; no other step
\* (change event, build, connection, timer) changes it.
C15_SiteDataIsLastMessage ==
    /\ received = <<>> => siteData = NoSiteData
    /\ (received # <<>> /\ received[1].json) =>
          siteData = [url |-> received[1].url, title |-> received[1].title,
                      version |-> received[1].version]

\* a message without a version was received after a template event had
\* displayed the version of an earlier message
C15_Witness ==
    /\ received # <<>>
    /\ received[1].json
    /\ received[1].version = "undefined"
    /\ siteData.version = "undefined"
    /\ siteData.title = "Post"
    /\ header = "site"
    /\ Len(events) = 1

----------------------------------------------------------------------------

\* the index of the last "/" of a path, 0 if it has none
LastSlash(p) ==
    IF \E i \in 1..Len(p) : p[i] = "/"
    THEN CHOOSE i \in 1..Len(p) :
            p[i] = "/" /\ \A j \in (i + 1)..Len(p) : p[j] # "/"
    ELSE 0

\* the base name of a path: what follows its last "/"
BaseName(p) == SubSeq(p, LastSlash(p) + 1, Len(p))

\* the root-entry convention: the base name contains "index" and the
\* extension is one of exts
MatchesConvention(p, exts) ==
    /\ includes(BaseName(p), <<"index">>)
    /\ \E ext \in exts : endsWith(p, ext)

\* the files on disk under root that match the convention
ConventionFiles(root, exts) ==
    {disk[i] : i \in {j \in 1..Len(disk) :
                        IsUnder(disk[j], root)
                        /\ MatchesConvention(disk[j], exts)}}

\* C16: the batch discovery hands to init's writeAssets holds, each once,
\* exactly the files under the two roots whose base name contains "index"
\* and whose extension is recognized; a file whose base name lacks "index"
\* is not in it, whatever its directories are called.
C16_DiscoveryByBaseName ==
    (invoked # <<>> /\ invoked[1].ev = 0) =>
        LET batch == invoked[1].batch IN
        /\ \A i, j \in 1..Len(batch) : batch[i] = batch[j] => i = j
        /\ {batch[i] : i \in 1..Len(batch)}
              = ConventionFiles(JsRoot, JsExts)
                    \cup ConventionFiles(CssRoot, CssExts)

----------------------------------------------------------------------------

\* a source map: an output whose name ends with ".map"
IsSourceMap(key) == endsWith(key, <<".", "map">>)

\* the outputs of the builds bs that are no source maps, in order
RECURSIVE Artifacts(_)
Artifacts(bs) ==
    IF bs = <<>> THEN <<>>
    ELSE LET NotSourceMap(key) == ~IsSourceMap(key)
         IN  SelectSeq(outputs(Head(bs).entry), NotSourceMap)
                \o Artifacts(Tail(bs))

\* C18: the result a writeAssets invocation returns (and the report prints)
\* lists every output of its builds that is no source map, and no source
\* map.
C18_ResultOmitsExactlySourceMaps ==
    \A r \in 1..Len(printed) :
        printed[r].results = Artifacts(BuiltBy(printed[r].call))

----------------------------------------------------------------------------

\* C17 as stated: a change event for a script or style path that matches
\* the root-entry convention (its base name contains "index", its extension
\* is recognized) starts one rebuild of exactly that path.
C17_ConventionPathRebuildsItself ==
    [][ (Arrived /\ IsAsset(NewPath)
                 /\ MatchesConvention(NewPath, JsExts \cup CssExts))
        => invoked' = Append(invoked, [id |-> Len(invoked),
                                       ev |-> Len(events'),
                                       batch |-> <<NewPath>>])
      ]_vars

----------------------------------------------------------------------------

\* the output directory of the builds
BuiltDir == <<"assets", "/", "built">>

\* a hidden path: one of its names begins with a dot
IsHidden(p) ==
    \E i \in 1..Len(p) : (i = 1 \/ p[i - 1] = "/") /\ p[i] \in DotNames

\* the artifacts the resolved builds have written
Written == UNION {{outputs(built[b].entry)[k] : k \in 1..2} :
                    b \in 1..Len(built)}

\* C19: no event the handler receives is for a hidden path or a path below
\* the output directory; none is for an artifact a build wrote, so every
\* rebuild after startup belongs to an event for a source path, one rebuild
\* at most for each event.
C19_NoEventForArtifacts ==
    /\ \A i \in 1..Len(events) :
          /\ ~IsHidden(events[i])
          /\ ~IsUnder(events[i], BuiltDir)
          /\ events[i] \notin Written
    /\ \A j \in 2..Len(invoked) :
          /\ invoked[j].ev \in 1..Len(events)
          /\ \A b \in 1..Len(invoked[j].batch) :
                ~IsUnder(invoked[j].batch[b], BuiltDir)
          /\ \A k \in 2..Len(invoked) : invoked[k].ev = invoked[j].ev => k = j
    /\ Len(invoked) <= 1 + Len(events)

\* the rebuild for a change of index.js has resolved and written its
\* artifacts; nothing is pending and no further event was handled
C19_Witness ==
    /\ events = <<JsIndex>>
    /\ Len(invoked) = 2
    /\ Len(BuiltBy(1)) = 1
    /\ outfile(JsIndex) \in Written
    /\ calls = {}

====
